---- MODULE Spec2Model ----
(***************************************************************************)
(* A model of the chipate CHIP-8 interpreter: the instruction decoder, the *)
(* CPU (fetch, execute, timers, history), RAM, the display buffer, the key *)
(* state and the driver loop of Emu::run.                                  *)
(***************************************************************************)
EXTENDS Integers, Sequences, FiniteSets, TLC

VARIABLES
  config,     \* Emu.config: [mode]
  cpu,        \* Emu.cpu: [mode, vs, i, prog_counter, stack, delay_timer, sound_timer, history]
  memory,     \* Emu.memory: RAM.data, kept as the bytes that differ from ImageByte
  display,    \* Emu.display: the set of indices of DisplayState.pixels that are true
  keyboard,   \* Emu.keyboard: the set of indices of KeyState.keys that are true
  loop,       \* position in Emu::run: "poll", "timer", "done"
  aborted,    \* the process panicked
  last,       \* observation log: the state before and after the last executed tick
  trail,      \* observation log: per executed tick, where it started
  decs,       \* observation log: calls of dec_timers since the last tick
  tick_due,   \* Emu::run: last_tick.elapsed() has reached min_ms_per_tick
  timer_due   \* Emu::run: last_timer.elapsed() has reached min_ms_per_timer_dec

vars ==
  <<config, cpu, memory, display, keyboard, loop, aborted, last, trail, decs,
    tick_due, timer_due>>

-----------------------------------------------------------------------------
(* Program constants *)

PROGRAM_COUNTER_START == 512

MAX_HISTORY_SIZE == 100

PROGRAM_START_ADDR == 512

DISPLAY_PIXELS_WIDTH == 64

DISPLAY_PIXELS_HEIGHT == 32

NUM_PIXELS == 2048

RAM_SIZE == 4096

FONT_START_ADDR == 80

DEFAULT_FONT_DATA ==
  << 240, 144, 144, 144, 240,  32,  96,  32,  32, 112, 240,  16, 240, 128, 240, 240,
      16, 240,  16, 240, 144, 144, 240,  16,  16, 240, 128, 240,  16, 240, 240, 128,
     240, 144, 240, 240,  16,  32,  64,  64, 240, 144, 240, 144, 240, 240, 144, 240,
      16, 240, 240, 144, 240, 144, 144, 224, 144, 224, 144, 224, 240, 128, 128, 128,
     240, 224, 144, 144, 144, 224, 240, 128, 240, 128, 240, 240, 128, 240, 128, 128 >>

U8 == 256

U16 == 65536

-----------------------------------------------------------------------------
(* Bounds of the model *)

\* ticks a run executes
MaxTicks == 6

\* calls of dec_timers between two ticks
MaxDecs == 3

\* ticks of a run that fills the history and goes on
MaxHistoryTicks == 103

-----------------------------------------------------------------------------
(* Machine arithmetic *)

RECURSIVE BitAnd(_, _)
BitAnd(a, b) ==
  IF a = 0 \/ b = 0 THEN 0
  ELSE (a % 2) * (b % 2) + 2 * BitAnd(a \div 2, b \div 2)

RECURSIVE BitOr(_, _)
BitOr(a, b) ==
  IF a = 0 THEN b
  ELSE IF b = 0 THEN a
  ELSE (IF a % 2 = 1 \/ b % 2 = 1 THEN 1 ELSE 0) + 2 * BitOr(a \div 2, b \div 2)

RECURSIVE BitXor(_, _)
BitXor(a, b) ==
  IF a = 0 THEN b
  ELSE IF b = 0 THEN a
  ELSE ((a + b) % 2) + 2 * BitXor(a \div 2, b \div 2)

RECURSIVE Pow2(_)
Pow2(k) == IF k = 0 THEN 1 ELSE 2 * Pow2(k - 1)

\* a >> k
Shr(a, k) == a \div Pow2(k)

\* u8::overflowing_add: <<wrapped sum, overflowed>>
overflowing_add(a, b) == <<(a + b) % U8, a + b >= U8>>

\* u8::overflowing_sub: <<wrapped difference, overflowed>>
overflowing_sub(a, b) == <<(a - b + U8) % U8, a < b>>

Max(a, b) == IF a >= b THEN a ELSE b

Last(s) == s[Len(s)]

Front(s) == SubSeq(s, 1, Len(s) - 1)

-----------------------------------------------------------------------------
(* Instruction::from_op_code *)

None == [op |-> "None"]

\* the match of from_op_code, on the first nibble and the precomputed fields
match_op_code(top, x, y, n, nn, nnn) ==
     CASE top = 0 ->
            (CASE nnn = 224 -> [op |-> "ClearScreen"]
               [] nnn = 238 -> [op |-> "SubroutineReturn"]
               [] OTHER -> [op |-> "MachineLanguageRoutine", address |-> nnn])
       [] top = 1 -> [op |-> "Jump", address |-> nnn]
       [] top = 2 -> [op |-> "SubroutineCall", address |-> nnn]
       [] top = 3 -> [op |-> "SkipEqual", v |-> x, value |-> nn]
       [] top = 4 -> [op |-> "SkipNotEqual", v |-> x, value |-> nn]
       [] top = 5 -> [op |-> "SkipEqualReg", vx |-> x, vy |-> y]
       [] top = 6 -> [op |-> "Set", v |-> x, value |-> nn]
       [] top = 7 -> [op |-> "AddRegister", v |-> x, value |-> nn]
       [] top = 8 ->
            (CASE n = 0 -> [op |-> "SetRegister", vx |-> x, vy |-> y]
               [] n = 1 -> [op |-> "Or", vx |-> x, vy |-> y]
               [] n = 2 -> [op |-> "And", vx |-> x, vy |-> y]
               [] n = 3 -> [op |-> "Xor", vx |-> x, vy |-> y]
               [] n = 4 -> [op |-> "Add", vx |-> x, vy |-> y]
               [] n = 5 -> [op |-> "Subtract", vx |-> x, vy |-> y]
               [] n = 6 -> [op |-> "ShiftRight", vx |-> x, vy |-> y]
               [] n = 7 -> [op |-> "SubtractRev", vx |-> x, vy |-> y]
               [] n = 14 -> [op |-> "ShiftLeft", vx |-> x, vy |-> y]
               [] OTHER -> None)
       [] top = 9 -> [op |-> "SkipNotEqualReg", vx |-> x, vy |-> y]
       [] top = 10 -> [op |-> "SetIndex", value |-> nnn]
       [] top = 12 -> [op |-> "Random", v |-> x, value |-> nn]
       [] top = 13 -> [op |-> "Display", vx |-> x, vy |-> y, pixels |-> n]
       [] top = 14 ->
            (CASE nn = 158 -> [op |-> "SkipIfKeyPressed", v |-> x]
               [] nn = 161 -> [op |-> "SkipIfKeyNotPressed", v |-> x]
               [] OTHER -> None)
       [] top = 15 ->
            (CASE nn = 7 -> [op |-> "DelayTimerLoad", v |-> x]
               [] nn = 10 -> [op |-> "GetKey", v |-> x]
               [] nn = 21 -> [op |-> "DelayTimerSet", v |-> x]
               [] nn = 24 -> [op |-> "SoundTimerSet", v |-> x]
               [] nn = 30 -> [op |-> "AddIndex", v |-> x]
               [] nn = 41 -> [op |-> "LoadFontChar", v |-> x]
               [] nn = 51 -> [op |-> "BcdConversion", v |-> x]
               [] nn = 85 -> [op |-> "Store", n |-> x]
               [] nn = 101 -> [op |-> "Load", n |-> x]
               [] OTHER -> None)
       [] OTHER -> None

\* a decoder that takes X from bits 4-7 and Y from bits 8-11
from_op_code_swapped_xy(op_code) ==
  match_op_code(op_code \div 4096,
                (op_code \div 16) % 16,
                (op_code \div 256) % 16,
                op_code % 16,
                op_code % 256,
                op_code % 4096)

\* the fields of the u16 op code: (op_code & 0xF000) >> 12 is op_code \div 4096,
\* (op_code & 0x0F00) >> 8 is (op_code \div 256) % 16, op_code & 0x0FFF is op_code % 4096
from_op_code(op_code) ==
  match_op_code(op_code \div 4096,
                (op_code \div 256) % 16,
                (op_code \div 16) % 16,
                op_code % 16,
                op_code % 256,
                op_code % 4096)

-----------------------------------------------------------------------------
(* RAM, DisplayState, KeyState, Font *)

\* The 4096 bytes of RAM.data are kept as a function from the addresses whose
\* byte differs from the image Emu::new builds (zeros, and the font at
\* FONT_START_ADDR) to that byte; ImageByte is that image.
FontSpan == FONT_START_ADDR..(FONT_START_ADDR + Len(DEFAULT_FONT_DATA) - 1)

ImageByte(address) ==
  IF address \in FontSpan THEN DEFAULT_FONT_DATA[address - FONT_START_ADDR + 1] ELSE 0

\* RAM::default: every byte is 0
RamDefault == [a \in {x \in FontSpan : ImageByte(x) # 0} |-> 0]

\* RAM::read, for an address below RAM_SIZE (indexing panics otherwise)
read(mem, address) == IF address \in DOMAIN mem THEN mem[address] ELSE ImageByte(address)

\* RAM::write, for an address below RAM_SIZE (indexing panics otherwise)
write(mem, address, byte) ==
  IF byte = ImageByte(address)
    THEN [a \in DOMAIN mem \ {address} |-> mem[a]]
    ELSE [a \in DOMAIN mem \cup {address} |-> IF a = address THEN byte ELSE mem[a]]

\* RAM::write_block, for a block that fits (slice indexing panics otherwise)
write_block(mem, start_addr, bytes) ==
  LET span   == start_addr..(start_addr + Len(bytes) - 1)
      val(a) == IF a \in span THEN bytes[a - start_addr + 1] ELSE mem[a]
  IN [a \in {x \in DOMAIN mem \cup span : val(x) # ImageByte(x)} |-> val(a)]

\* Font::char_addr
char_addr(char) == FONT_START_ADDR + (5 * char)

\* KeyState::get_pressed_key: the first index whose flag is set, -1 for None
\* the pressed key searched from the far end
get_pressed_key_from_end(kb) ==
  IF kb = {} THEN -1 ELSE CHOOSE k \in kb : \A o \in kb : k >= o

get_pressed_key(kb) ==
  IF kb = {} THEN -1 ELSE CHOOSE k \in kb : \A o \in kb : k <= o

\* a reset that leaves the keys marked
reset_nothing(kb) == kb

\* KeyState::reset
reset(kb) == {}

\* Key::from_idx: the key of an index, -1 where it panics on an unknown index
from_idx(idx) == IF idx \in 0..15 THEN idx ELSE -1

\* KeyState::is_key_pressed, of the key with this index
is_key_pressed(kb, idx) == idx \in kb

-----------------------------------------------------------------------------
(* The result of a step of the CPU: the new CPU, memory and display, and      *)
(* whether the step panicked (index out of bounds, overflow trap, empty range) *)

Ok(c, mem, disp) == [cpu |-> c, memory |-> mem, display |-> disp, panic |-> FALSE]

Panic(c, mem, disp) == [cpu |-> c, memory |-> mem, display |-> disp, panic |-> TRUE]

\* a u16 result that left the type's range: wraps in a build without overflow
\* checks, panics in a build with them
Ovf(v) == v < 0 \/ v >= U16

Wrap16(v) == (v + U16) % U16

\* Registers::set_f
set_f(c, value) == [c EXCEPT !.vs[15] = value]

-----------------------------------------------------------------------------
(* CPU::display *)

RECURSIVE DrawCols(_, _, _, _, _, _)
DrawCols(c, disp, b, x, y, j) ==
  IF j = 8 THEN [cpu |-> c, display |-> disp]
  ELSE
    LET px         == BitAnd(b, Pow2(7 - j))
        idx        == y * DISPLAY_PIXELS_WIDTH + x
        px_current == idx \in disp
        written    == px_current # (px # 0)
        disp2      == IF written THEN disp \cup {idx} ELSE disp \ {idx}
        c2         == IF px_current /\ ((px # 0) # px_current) THEN set_f(c, 1) ELSE c
    IN IF x + 1 >= DISPLAY_PIXELS_WIDTH
         THEN [cpu |-> c2, display |-> disp2]
         ELSE DrawCols(c2, disp2, b, x + 1, y, j + 1)

RECURSIVE DrawRows(_, _, _, _, _, _, _, _, _)
\* the end of the body of 'rows, row holding the state after 'cols
DrawNextRow(row, mem, vx, y, i, pixels, trap) ==
  IF y + 1 >= DISPLAY_PIXELS_HEIGHT
    THEN Ok(row.cpu, mem, row.display)
    ELSE DrawRows(row.cpu, mem, row.display, vx,
                  row.cpu.vs[vx] % DISPLAY_PIXELS_WIDTH, y + 1, i + 1, pixels, trap)

DrawRows(c, mem, disp, vx, x, y, i, pixels, trap) ==
  IF i = pixels THEN Ok(c, mem, disp)
  ELSE IF Ovf(c.i + i) /\ trap THEN Panic(c, mem, disp)
  ELSE IF Wrap16(c.i + i) >= RAM_SIZE THEN Panic(c, mem, disp)
  ELSE DrawNextRow(DrawCols(c, disp, read(mem, Wrap16(c.i + i)), x, y, 0),
                   mem, vx, y, i, pixels, trap)

cpu_display(c, mem, disp, vx, vy, pixels, trap) ==
  LET x == c.vs[vx] % DISPLAY_PIXELS_WIDTH
      y == c.vs[vy] % DISPLAY_PIXELS_HEIGHT
  IN DrawRows(set_f(c, 0), mem, disp, vx, x, y, 0, pixels, trap)

-----------------------------------------------------------------------------
(* Instruction::Load and Instruction::Store *)

RECURSIVE LoadLoop(_, _, _, _, _, _)
LoadLoop(c, mem, disp, k, n, trap) ==
  IF k > n THEN Ok(c, mem, disp)
  ELSE IF c.mode = "Classic" THEN
    IF c.i >= RAM_SIZE THEN Panic(c, mem, disp)
    ELSE IF Ovf(c.i + 1) /\ trap THEN Panic(c, mem, disp)
    ELSE LoadLoop([c EXCEPT !.vs[k] = read(mem, c.i), !.i = Wrap16(c.i + 1)],
                  mem, disp, k + 1, n, trap)
  ELSE
    IF Ovf(c.i + k) /\ trap THEN Panic(c, mem, disp)
    ELSE IF Wrap16(c.i + k) >= RAM_SIZE THEN Panic(c, mem, disp)
    ELSE LoadLoop([c EXCEPT !.vs[k] = read(mem, Wrap16(c.i + k))], mem, disp, k + 1, n, trap)

RECURSIVE StoreLoop(_, _, _, _, _, _)
StoreLoop(c, mem, disp, k, n, trap) ==
  IF k > n THEN Ok(c, mem, disp)
  ELSE IF c.mode = "Classic" THEN
    IF c.i >= RAM_SIZE THEN Panic(c, mem, disp)
    ELSE IF Ovf(c.i + 1) /\ trap THEN Panic(c, write(mem, c.i, c.vs[k]), disp)
    ELSE StoreLoop([c EXCEPT !.i = Wrap16(c.i + 1)],
                   write(mem, c.i, c.vs[k]), disp, k + 1, n, trap)
  ELSE
    IF Ovf(c.i + k) /\ trap THEN Panic(c, mem, disp)
    ELSE IF Wrap16(c.i + k) >= RAM_SIZE THEN Panic(c, mem, disp)
    ELSE StoreLoop(c, write(mem, Wrap16(c.i + k), c.vs[k]), disp, k + 1, n, trap)

-----------------------------------------------------------------------------
(* CPU::fetch: <<result with the advanced program counter, op code>> *)

\* a fetch that reads the op code low byte first
fetch_little_endian(c, mem, disp, trap) ==
  IF c.prog_counter + 1 >= RAM_SIZE THEN <<Panic(c, mem, disp), 0>>
  ELSE <<Ok([c EXCEPT !.prog_counter = Wrap16(c.prog_counter + 2)], mem, disp),
         read(mem, c.prog_counter + 1) * 256 + read(mem, c.prog_counter)>>

\* a fetch that advances the program counter by one byte
fetch_advance_one(c, mem, disp, trap) ==
  IF c.prog_counter + 1 >= RAM_SIZE THEN <<Panic(c, mem, disp), 0>>
  ELSE <<Ok([c EXCEPT !.prog_counter = Wrap16(c.prog_counter + 1)], mem, disp),
         read(mem, c.prog_counter) * 256 + read(mem, c.prog_counter + 1)>>

fetch(c, mem, disp, trap) ==
  IF c.prog_counter >= RAM_SIZE THEN <<Panic(c, mem, disp), 0>>
  ELSE IF Ovf(c.prog_counter + 1) /\ trap THEN <<Panic(c, mem, disp), 0>>
  ELSE IF Wrap16(c.prog_counter + 1) >= RAM_SIZE THEN <<Panic(c, mem, disp), 0>>
  ELSE IF Ovf(c.prog_counter + 2) /\ trap THEN <<Panic(c, mem, disp), 0>>
  ELSE
    LET high == read(mem, c.prog_counter)
        low  == read(mem, Wrap16(c.prog_counter + 1))
    IN <<Ok([c EXCEPT !.prog_counter = Wrap16(c.prog_counter + 2)], mem, disp),
         BitOr((high * 256) % U16, low)>>

-----------------------------------------------------------------------------
(* CPU::execute, the match on the instruction.  kb is the key state, r the  *)
(* value the random generator draws, trap whether the build checks overflow *)

\* a skip that skips when the condition does not hold
skip_inverted(c, mem, disp, cond, trap) ==
  IF cond THEN Ok(c, mem, disp)
  ELSE Ok([c EXCEPT !.prog_counter = Wrap16(c.prog_counter + 2)], mem, disp)

\* prog_counter += 2 of the skip instructions
skip(c, mem, disp, cond, trap) ==
  IF ~cond THEN Ok(c, mem, disp)
  ELSE IF Ovf(c.prog_counter + 2) /\ trap THEN Panic(c, mem, disp)
  ELSE Ok([c EXCEPT !.prog_counter = Wrap16(c.prog_counter + 2)], mem, disp)

\* a key skip that takes the key from the register VX
ex_SkipIfKeyPressed_by_register(c, mem, disp, kb, v, trap) ==
  IF from_idx(c.vs[v]) = -1 THEN Panic(c, mem, disp)
  ELSE skip(c, mem, disp, is_key_pressed(kb, from_idx(c.vs[v])), trap)

\* Key::from(v), then the skip on the key
ex_SkipIfKeyPressed(c, mem, disp, kb, v, trap) ==
  IF from_idx(v) = -1 THEN Panic(c, mem, disp)
  ELSE skip(c, mem, disp, is_key_pressed(kb, from_idx(v)), trap)

ex_SkipIfKeyNotPressed(c, mem, disp, kb, v, trap) ==
  IF from_idx(v) = -1 THEN Panic(c, mem, disp)
  ELSE skip(c, mem, disp, ~is_key_pressed(kb, from_idx(v)), trap)

\* an add that writes the flag before the sum
ex_Add_flag_first(c, vx, vy) ==
  LET r == overflowing_add(c.vs[vx], c.vs[vy])
  IN [set_f(c, IF r[2] THEN 1 ELSE 0) EXCEPT !.vs[vx] = r[1]]

ex_Add(c, vx, vy) ==
  LET r == overflowing_add(c.vs[vx], c.vs[vy])
  IN set_f([c EXCEPT !.vs[vx] = r[1]], IF r[2] THEN 1 ELSE 0)

\* an index add that keeps the index register within 12 bits
ex_AddIndex_truncated(c, mem, disp, v, trap) ==
  LET sum == c.i + c.vs[v]
      c2  == [c EXCEPT !.i = sum % 4096]
  IN Ok(IF sum >= 4096 THEN set_f(c2, 1) ELSE c2, mem, disp)

ex_AddIndex(c, mem, disp, v, trap) ==
  LET sum == c.i + c.vs[v]
      c2  == [c EXCEPT !.i = Wrap16(sum)]
  IN IF Ovf(sum) /\ trap THEN Panic(c, mem, disp)
     ELSE Ok(IF c2.i >= 4096 THEN set_f(c2, 1) ELSE c2, mem, disp)

\* an add-immediate that sets the flag like the register add
ex_AddRegister_with_carry(c, v, value) ==
  LET r == overflowing_add(c.vs[v], value)
  IN set_f([c EXCEPT !.vs[v] = r[1]], IF r[2] THEN 1 ELSE 0)

ex_AddRegister(c, v, value) ==
  [c EXCEPT !.vs[v] = overflowing_add(c.vs[v], value)[1]]

\* a BCD conversion whose tens digit is not reduced below 10
ex_BcdConversion_tens_unreduced(c, mem, disp, v, trap) ==
  LET value == c.vs[v]
  IN IF c.i + 2 >= RAM_SIZE THEN Panic(c, mem, disp)
     ELSE Ok(c, write(write(write(mem, c.i, value \div 100), c.i + 1, value \div 10),
                      c.i + 2, value % 10), disp)

ex_BcdConversion(c, mem, disp, v, trap) ==
  LET value == c.vs[v]
      a0 == c.i
      a1 == c.i + 1
      a2 == c.i + 2
  IN IF a0 >= RAM_SIZE THEN Panic(c, mem, disp)
     ELSE LET m0 == write(mem, a0, value \div 100)
          IN IF (Ovf(a1) /\ trap) \/ Wrap16(a1) >= RAM_SIZE THEN Panic(c, m0, disp)
             ELSE LET m1 == write(m0, Wrap16(a1), (value % 100) \div 10)
                  IN IF (Ovf(a2) /\ trap) \/ Wrap16(a2) >= RAM_SIZE THEN Panic(c, m1, disp)
                     ELSE Ok(c, write(m1, Wrap16(a2), value % 10), disp)

\* a get-key that leaves the program counter after the instruction when no key is down
ex_GetKey_no_rewind(c, mem, disp, kb, v, trap) ==
  LET key == get_pressed_key(kb)
  IN IF key # -1 THEN Ok([c EXCEPT !.vs[v] = key], mem, disp) ELSE Ok(c, mem, disp)

ex_GetKey(c, mem, disp, kb, v, trap) ==
  LET key == get_pressed_key(kb)
  IN IF key # -1 THEN Ok([c EXCEPT !.vs[v] = key], mem, disp)
     ELSE IF Ovf(c.prog_counter - 2) /\ trap THEN Panic(c, mem, disp)
     ELSE Ok([c EXCEPT !.prog_counter = Wrap16(c.prog_counter - 2)], mem, disp)

\* a machine language routine that is entered at its address
ex_MachineLanguageRoutine_entered(c, address) == [c EXCEPT !.prog_counter = address]

\* only a notice is logged
ex_MachineLanguageRoutine(c, address) == c

\* the values gen_range(0..value) can draw; it panics on the empty range
gen_range(value) == 0..(value - 1)

\* r is the value drawn
ex_Random(c, mem, disp, v, value, r) ==
  IF gen_range(value) = {} THEN Panic(c, mem, disp)
  ELSE Ok([c EXCEPT !.vs[v] = BitAnd(r, value)], mem, disp)

ex_ShiftLeft(c, vx, vy) ==
  LET c1       == IF c.mode = "Classic" THEN [c EXCEPT !.vs[vx] = c.vs[vy]] ELSE c
      overflow == BitAnd(c1.vs[vx], 128) # 0
      value    == (c1.vs[vx] * 2) % U8
  IN set_f([c1 EXCEPT !.vs[vx] = value], IF overflow THEN 1 ELSE 0)

ex_ShiftRight(c, vx, vy) ==
  LET c1        == IF c.mode = "Classic" THEN [c EXCEPT !.vs[vx] = c.vs[vy]] ELSE c
      underflow == BitAnd(c1.vs[vx], 1) # 0
      value     == Shr(c1.vs[vx], 1)
  IN set_f([c1 EXCEPT !.vs[vx] = value], IF underflow THEN 1 ELSE 0)

\* a subtract that writes the flag before the difference
ex_Subtract_flag_first(c, vx, vy) ==
  LET r == overflowing_sub(c.vs[vx], c.vs[vy])
  IN [set_f(c, IF ~r[2] THEN 1 ELSE 0) EXCEPT !.vs[vx] = r[1]]

ex_Subtract(c, vx, vy) ==
  LET minuend    == c.vs[vx]
      subtrahend == c.vs[vy]
      r          == overflowing_sub(minuend, subtrahend)
  IN set_f([c EXCEPT !.vs[vx] = r[1]], IF ~r[2] THEN 1 ELSE 0)

\* a reverse subtract that takes its operands in the order of the subtract
ex_SubtractRev_swapped(c, vx, vy) ==
  LET r == overflowing_sub(c.vs[vx], c.vs[vy])
  IN set_f([c EXCEPT !.vs[vx] = r[1]], IF ~r[2] THEN 1 ELSE 0)

ex_SubtractRev(c, vx, vy) ==
  LET minuend    == c.vs[vy]
      subtrahend == c.vs[vx]
      r          == overflowing_sub(minuend, subtrahend)
  IN set_f([c EXCEPT !.vs[vx] = r[1]], IF ~r[2] THEN 1 ELSE 0)

ex_SubroutineCall(c, address) ==
  [c EXCEPT !.stack = Append(c.stack, c.prog_counter), !.prog_counter = address]

\* a return that takes the oldest return address
ex_SubroutineReturn_fifo(c) ==
  IF c.stack # <<>>
    THEN [c EXCEPT !.prog_counter = Head(c.stack), !.stack = Tail(c.stack)]
    ELSE c

\* a return that goes to address 0 on an empty stack
ex_SubroutineReturn_or_default(c) ==
  IF c.stack # <<>>
    THEN [c EXCEPT !.prog_counter = Last(c.stack), !.stack = Front(c.stack)]
    ELSE [c EXCEPT !.prog_counter = 0]

ex_SubroutineReturn(c) ==
  IF c.stack # <<>>
    THEN [c EXCEPT !.prog_counter = Last(c.stack), !.stack = Front(c.stack)]
    ELSE c

\* a history that is never trimmed
push_history_unbounded(c, ins) == [c EXCEPT !.history = Append(c.history, ins)]

\* the VecDeque of the executed instructions
push_history(c, ins) ==
  LET h == IF Len(c.history) = MAX_HISTORY_SIZE THEN Tail(c.history) ELSE c.history
  IN [c EXCEPT !.history = Append(h, ins)]

execute_match(c, mem, disp, ins, kb, r, trap) ==
  CASE ins.op = "Add" -> Ok(ex_Add(c, ins.vx, ins.vy), mem, disp)
    [] ins.op = "AddIndex" -> ex_AddIndex(c, mem, disp, ins.v, trap)
    [] ins.op = "AddRegister" -> Ok(ex_AddRegister(c, ins.v, ins.value), mem, disp)
    [] ins.op = "And" ->
         Ok([c EXCEPT !.vs[ins.vx] = BitAnd(c.vs[ins.vx], c.vs[ins.vy])], mem, disp)
    [] ins.op = "BcdConversion" -> ex_BcdConversion(c, mem, disp, ins.v, trap)
    [] ins.op = "ClearScreen" -> Ok(c, mem, {})
    [] ins.op = "DelayTimerLoad" -> Ok([c EXCEPT !.delay_timer = c.vs[ins.v]], mem, disp)
    [] ins.op = "DelayTimerSet" -> Ok([c EXCEPT !.delay_timer = c.vs[ins.v]], mem, disp)
    [] ins.op = "Display" -> cpu_display(c, mem, disp, ins.vx, ins.vy, ins.pixels, trap)
    [] ins.op = "GetKey" -> ex_GetKey(c, mem, disp, kb, ins.v, trap)
    [] ins.op = "Jump" -> Ok([c EXCEPT !.prog_counter = ins.address], mem, disp)
    [] ins.op = "Load" -> LoadLoop(c, mem, disp, 0, ins.n, trap)
    [] ins.op = "LoadFontChar" -> Ok([c EXCEPT !.i = char_addr(c.vs[ins.v])], mem, disp)
    [] ins.op = "MachineLanguageRoutine" ->
         Ok(ex_MachineLanguageRoutine(c, ins.address), mem, disp)
    [] ins.op = "Or" ->
         Ok([c EXCEPT !.vs[ins.vx] = BitOr(c.vs[ins.vx], c.vs[ins.vy])], mem, disp)
    [] ins.op = "Random" -> ex_Random(c, mem, disp, ins.v, ins.value, r)
    [] ins.op = "SetIndex" -> Ok([c EXCEPT !.i = ins.value], mem, disp)
    [] ins.op = "Set" -> Ok([c EXCEPT !.vs[ins.v] = ins.value], mem, disp)
    [] ins.op = "SetRegister" -> Ok([c EXCEPT !.vs[ins.vx] = c.vs[ins.vy]], mem, disp)
    [] ins.op = "ShiftLeft" -> Ok(ex_ShiftLeft(c, ins.vx, ins.vy), mem, disp)
    [] ins.op = "ShiftRight" -> Ok(ex_ShiftRight(c, ins.vx, ins.vy), mem, disp)
    [] ins.op = "SkipEqual" -> skip(c, mem, disp, c.vs[ins.v] = ins.value, trap)
    [] ins.op = "SkipEqualReg" -> skip(c, mem, disp, c.vs[ins.vx] = c.vs[ins.vy], trap)
    [] ins.op = "SkipIfKeyNotPressed" -> ex_SkipIfKeyNotPressed(c, mem, disp, kb, ins.v, trap)
    [] ins.op = "SkipIfKeyPressed" -> ex_SkipIfKeyPressed(c, mem, disp, kb, ins.v, trap)
    [] ins.op = "SkipNotEqual" -> skip(c, mem, disp, c.vs[ins.v] # ins.value, trap)
    [] ins.op = "SkipNotEqualReg" -> skip(c, mem, disp, c.vs[ins.vx] # c.vs[ins.vy], trap)
    [] ins.op = "SoundTimerSet" -> Ok([c EXCEPT !.sound_timer = c.vs[ins.v]], mem, disp)
    [] ins.op = "Store" -> StoreLoop(c, mem, disp, 0, ins.n, trap)
    [] ins.op = "Subtract" -> Ok(ex_Subtract(c, ins.vx, ins.vy), mem, disp)
    [] ins.op = "SubtractRev" -> Ok(ex_SubtractRev(c, ins.vx, ins.vy), mem, disp)
    [] ins.op = "SubroutineCall" -> Ok(ex_SubroutineCall(c, ins.address), mem, disp)
    [] ins.op = "SubroutineReturn" -> Ok(ex_SubroutineReturn(c), mem, disp)
    [] ins.op = "Xor" ->
         Ok([c EXCEPT !.vs[ins.vx] = BitXor(c.vs[ins.vx], c.vs[ins.vy])], mem, disp)

\* CPU::execute, after the match: the history
execute_end(res, ins) ==
  IF res.panic THEN res ELSE [res EXCEPT !.cpu = push_history(res.cpu, ins)]

\* CPU::execute: the match, then the history
execute(c, mem, disp, ins, kb, r, trap) ==
  execute_end(execute_match(c, mem, disp, ins, kb, r, trap), ins)

\* a tick for which an unknown op code is fatal
tick_match_unknown_fatal(f, ins, kb, r, trap) ==
  IF f.panic THEN f
  ELSE IF ins = None THEN Panic(f.cpu, f.memory, f.display)
  ELSE execute(f.cpu, f.memory, f.display, ins, kb, r, trap)

\* CPU::tick, after the fetch: f is the result of the fetch, ins the decoded op code
tick_match(f, ins, kb, r, trap) ==
  IF f.panic THEN f
  ELSE IF ins = None THEN f
  ELSE execute(f.cpu, f.memory, f.display, ins, kb, r, trap)

tick_decode(f, kb, r, trap) == tick_match(f[1], from_op_code(f[2]), kb, r, trap)

\* CPU::tick
tick(c, mem, disp, kb, r, trap) == tick_decode(fetch(c, mem, disp, trap), kb, r, trap)

\* timers that wrap from 0 to 255
dec_timers_wrapping(c) ==
  [c EXCEPT !.delay_timer = (c.delay_timer + U8 - 1) % U8,
            !.sound_timer = (c.sound_timer + U8 - 1) % U8]

\* CPU::dec_timers
dec_timers(c) ==
  [c EXCEPT !.delay_timer = IF c.delay_timer > 0 THEN c.delay_timer - 1 ELSE c.delay_timer,
            !.sound_timer = IF c.sound_timer > 0 THEN c.sound_timer - 1 ELSE c.sound_timer]

-----------------------------------------------------------------------------
(* Construction: main builds the Config, Emu::new, Emu::load_program *)

\* Mode::default
ModeDefault == "Modern"

\* CPU::default
CpuDefault ==
  [mode         |-> ModeDefault,
   vs           |-> [r \in 0..15 |-> 0],
   i            |-> 0,
   prog_counter |-> PROGRAM_COUNTER_START,
   stack        |-> <<>>,
   delay_timer  |-> 0,
   sound_timer  |-> 0,
   history      |-> <<>>]

\* Emu::new: the font is loaded into a fresh RAM, the CPU is CPU::default()
EmuNew(cfg) ==
  [config   |-> cfg,
   cpu      |-> CpuDefault,
   memory   |-> write_block(RamDefault, FONT_START_ADDR, DEFAULT_FONT_DATA),
   display  |-> {},
   keyboard |-> {}]

\* the bytes of a program given as a sequence of 16-bit words, high byte first
RECURSIVE Bytes(_)
Bytes(ws) ==
  IF ws = <<>> THEN <<>>
  ELSE <<Head(ws) \div 256, Head(ws) % 256>> \o Bytes(Tail(ws))

\* Emu::load_program (Program::load)
load_program(emu, data) ==
  [emu EXCEPT !.memory = write_block(emu.memory, PROGRAM_START_ADDR, data)]

-----------------------------------------------------------------------------
(* The program images the model loads *)

Op(a, b, c, d) == a * 4096 + b * 256 + c * 16 + d

\* keys the input collaborator reports (Keycode::Num1 -> Key::Num1, Keycode::V -> Key::F)
KeySet == {1, 15}

\* address of the word after a program of n words
After(n) == PROGRAM_START_ADDR + 2 * n

\* sprite draws: I := data; V0 := a; V1 := c; draw; V0 := b; draw; data
DrawPrograms ==
  { << Op(10, 0, 0, 0) + After(7), Op(6, 0, 0, 0) + a, Op(6, 1, 0, 0) + c,
       Op(13, 0, 1, n), Op(6, 0, 0, 0) + b, Op(13, 0, 1, n), 4608, w >> :
      a \in {0, 4, 60}, b \in {0, 4, 60}, c \in {0, 31},
      n \in {1, 2}, w \in {65535, 61569, 33023} }

\* get-key and the key skips
KeyPrograms ==
  { << Op(15, x, 0, 10), Op(7, x, 0, 1), Op(14, x, 9, 14), Op(6, 2, 0, 7),
       Op(14, x, 10, 1), Op(6, 3, 0, 9) >> : x \in {0, 1, 15} }

\* calls, returns and jumps
FlowPrograms ==
  { << 8708, 0, 8712, 238, 238 >>,          \* 2204 0000 2208 00EE 00EE
    << 8708, 238, 238 >>,                   \* 2204 00EE 00EE
    << 238, 24917 >>,                       \* 00EE 6155
    << 8704 >>,                             \* 2200
    << 4612, 24593, 24610, 4608 >>,         \* 1204 6011 6022 1200
    << 4611, 0, 0 >>,                       \* 1203
    << 8190 >>,                             \* 1FFE
    << 224, 45056, 32776, 57344, 61695 >> } \* 00E0 B000 8008 E000 F0FF

\* timers: V0 := t; delay := V0; sound := V0; V1 := delay
TimerPrograms ==
  { << Op(6, 0, 0, 0) + t, Op(15, 0, 1, 5), Op(15, 0, 1, 8), Op(15, 1, 0, 7) >> :
      t \in {0, 1, 2, 255} }

\* random draws
RandomPrograms == { << Op(12, 0, 0, 0) + nn, Op(12, 15, 0, 0) + nn >> : nn \in {0, 1, 6} }

\* memory and index instructions
MemoryPrograms ==
  { << 45054, 61491 >>,                     \* AFFE F033
    << 45055, 61781 >>,                     \* AFFF F155
    << 45055, 61797 >>,                     \* AFFF F165
    << 45055, 53249 >>,                     \* AFFF D001
    << 41728, 24699, 61491, 62053, 61470, 61481 >>,  \* A300 607B F033 F265 F01E F029
    << 45055, 24578, 61470, 61470 >>,       \* AFFF 6002 F01E F01E
    << 41728, 24833, 25090, 62037 >> }      \* A300 6101 6202 F255

\* skips and register moves
SkipPrograms ==
  { << Op(6, 0, 0, 5), Op(t, 0, 0, 0) + nn, Op(6, 1, 0, 1), Op(q, 0, y, 0),
       Op(7, 1, 15, 15), Op(8, 2, 1, 0) >> :
      t \in {3, 4}, nn \in {5, 6}, q \in {5, 9}, y \in {0, 1} }

\* the programs run under the driver loop, with key events and timer steps
DriverPrograms ==
  KeyPrograms \cup TimerPrograms \cup SkipPrograms
    \cup { << 8708, 238, 238 >>, << 41728, 24699, 61491, 62053, 61470, 61481 >> }

\* register-to-register instructions: Vx := a; Vy := b; 8xyN
AluRegs == {0, 1, 15}

AluVals == {0, 1, 3, 5, 128, 129, 255}

AluPrograms ==
  { << Op(6, x, 0, 0) + a, Op(6, y, 0, 0) + b, Op(8, x, y, n) >> :
      x \in AluRegs, y \in AluRegs, a \in AluVals, b \in AluVals,
      n \in {0, 1, 2, 3, 4, 5, 6, 7, 14} }

\* one-word programs, for the decoder: every first nibble and every low byte,
\* with four values of the second nibble
OpCodes == { t * 4096 + x * 256 + nn : t \in 0..15, x \in {0, 5, 10, 15}, nn \in 0..255 }

DecodePrograms == { << w >> : w \in OpCodes }

\* add-immediate with the flag set: 60FF 6101 8014 71FF 7F01
ImmediatePrograms == { << 24831, 24833, 32788, 29183, 32513 >> }

\* BCD conversions: I := 0x300; V0 := v; F033; then of V1 = 0 at the same place
BcdPrograms ==
  { << 41728, Op(6, 0, 0, 0) + v, 61491, 61747 >> : v \in {0, 9, 10, 99, 100, 123, 199, 200, 255} }

\* machine language routines: V0 := 7; delay := V0; I := 0x200; draw; 0NNN
MlrPrograms ==
  { << 24583, 61461, 41472, 53249, w >> : w \in {1, 223, 225, 237, 239, 291, 4095} }

\* sprite draws placed by the flags register: I := data; VF := a; DF0n; data
FlagDrawPrograms ==
  { << Op(10, 0, 0, 0) + After(3), Op(6, 15, 0, 0) + a, Op(13, 15, 0, n), 65535 >> :
      a \in {0, 10}, n \in {1, 2} }

\* programs that run on for ever: 1200; 6001 7001 1200; F00A with no key
\* pressed; 6001 FFFF 1200
HistoryPrograms ==
  { << 4608 >>, << 24577, 28673, 4608 >>, << 61450 >>, << 24577, 65535, 4608 >> }

\* the programs run by ticks alone
CpuPrograms ==
  DrawPrograms \cup KeyPrograms \cup FlowPrograms \cup TimerPrograms
    \cup RandomPrograms \cup MemoryPrograms \cup SkipPrograms \cup AluPrograms
    \cup ImmediatePrograms \cup BcdPrograms \cup MlrPrograms \cup FlagDrawPrograms

-----------------------------------------------------------------------------
(* The state machine *)

Modes == {"Classic", "Modern"}

Snapshot(c, mem, disp, kb) == [cpu |-> c, memory |-> mem, display |-> disp, keyboard |-> kb]

\* the state of an Emu about to run
InitFrom(emu) ==
  /\ config = emu.config
  /\ cpu = emu.cpu
  /\ memory = emu.memory
  /\ display = emu.display
  /\ keyboard = emu.keyboard
  /\ loop = "poll"
  /\ aborted = FALSE
  /\ last = [pre   |-> Snapshot(emu.cpu, emu.memory, emu.display, emu.keyboard),
             cpu   |-> emu.cpu,
             panic |-> FALSE]
  /\ trail = <<>>
  /\ decs = 0
  /\ tick_due = FALSE
  /\ timer_due = FALSE

\* main: Config from the arguments, Emu::new(config), emu.load_program(program)
InitWith(programs) ==
  \E m \in Modes, p \in programs : InitFrom(load_program(EmuNew([mode |-> m]), Bytes(p)))

Init == InitWith(DriverPrograms)

InitCpu == InitWith(CpuPrograms)

\* the instruction the next tick decodes (None when the fetch would fail)
NextIns ==
  IF cpu.prog_counter + 1 >= RAM_SIZE THEN None
  ELSE from_op_code(read(memory, cpu.prog_counter) * 256 + read(memory, cpu.prog_counter + 1))

\* what the random generator can return to the next tick
RandomDraws ==
  IF NextIns.op = "Random" /\ gen_range(NextIns.value) # {}
    THEN gen_range(NextIns.value) ELSE {0}

\* the state after a call of cpu.tick with result res, pre the state before it.
\* A panic ends the process, and the state it leaves behind is not observed.
AfterTick(res, pre) ==
  /\ IF res.panic
       THEN /\ aborted' = TRUE
            /\ last' = [pre |-> pre, cpu |-> cpu, panic |-> TRUE]
            /\ UNCHANGED <<cpu, memory, display>>
       ELSE /\ cpu' = res.cpu
            /\ memory' = res.memory
            /\ display' = res.display
            /\ last' = [pre |-> pre, cpu |-> res.cpu, panic |-> FALSE]
            /\ UNCHANGED aborted
  /\ trail' = Append(trail, [prog_counter |-> cpu.prog_counter, stack |-> cpu.stack])
  /\ decs' = 0
  /\ UNCHANGED config

\* cpu.tick(&mut memory, &mut display, &font, &keyboard) on the current state
CallTick(r, trap) ==
  AfterTick(tick(cpu, memory, display, keyboard, r, trap),
            Snapshot(cpu, memory, display, keyboard))

\* Emu::run, the event loop: a KeyUp event of a mapped key
KeyEvent(k) ==
  /\ loop = "poll"
  /\ keyboard' = keyboard \cup {k}
  /\ UNCHANGED <<config, cpu, memory, display, loop, aborted, last, trail, decs,
                 tick_due, timer_due>>

\* Emu::run, the event loop: Escape breaks out of the main loop
Quit ==
  /\ loop = "poll"
  /\ loop' = "done"
  /\ UNCHANGED <<config, cpu, memory, display, keyboard, aborted, last, trail, decs,
                 tick_due, timer_due>>

\* Emu::run: the tick is due: cpu.tick(..), last_tick = now, keyboard.reset()
TickDue ==
  /\ loop = "poll"
  /\ tick_due
  /\ Len(trail) < MaxTicks
  /\ \E r \in RandomDraws, trap \in BOOLEAN : CallTick(r, trap)
  /\ tick_due' = IF aborted' THEN tick_due ELSE FALSE
  /\ keyboard' = IF aborted' THEN keyboard ELSE reset(keyboard)
  /\ loop' = IF aborted' THEN "done" ELSE "timer"
  /\ UNCHANGED timer_due

\* Emu::run: the tick is not due yet
TickNotDue ==
  /\ loop = "poll"
  /\ ~tick_due
  /\ loop' = "timer"
  /\ UNCHANGED <<config, cpu, memory, display, keyboard, aborted, last, trail, decs,
                 tick_due, timer_due>>

\* Emu::run: the 60Hz step is due: cpu.dec_timers(), last_timer = now
TimerDue ==
  /\ loop = "timer"
  /\ timer_due
  /\ decs < MaxDecs
  /\ cpu' = dec_timers(cpu)
  /\ timer_due' = FALSE
  /\ decs' = decs + 1
  /\ loop' = "poll"
  /\ UNCHANGED <<config, memory, display, keyboard, aborted, last, trail, tick_due>>

\* Emu::run: the 60Hz step is not due yet
TimerNotDue ==
  /\ loop = "timer"
  /\ ~timer_due
  /\ loop' = "poll"
  /\ UNCHANGED <<config, cpu, memory, display, keyboard, aborted, last, trail, decs,
                 tick_due, timer_due>>

\* time passes while Emu::run runs: an elapsed time that was below its minimum
\* reaches it
Elapse ==
  /\ loop # "done"
  /\ \E t, d \in BOOLEAN :
       /\ tick_due' = (tick_due \/ t)
       /\ timer_due' = (timer_due \/ d)
  /\ <<tick_due', timer_due'>> # <<tick_due, timer_due>>
  /\ UNCHANGED <<config, cpu, memory, display, keyboard, loop, aborted, last, trail, decs>>

Next ==
  \/ \E k \in KeySet : KeyEvent(k)
  \/ Quit
  \/ Elapse
  \/ TickDue
  \/ TickNotDue
  \/ TimerDue
  \/ TimerNotDue

Spec == Init /\ [][Next]_vars

\* CPU::tick called on its own, tick after tick, with the key state as it is
CpuTick ==
  /\ loop = "poll"
  /\ Len(trail) < MaxTicks
  /\ \E r \in RandomDraws, trap \in BOOLEAN : CallTick(r, trap)
  /\ loop' = IF aborted' THEN "done" ELSE loop
  /\ UNCHANGED <<keyboard, tick_due, timer_due>>

NextCpu == CpuTick

SpecCpu == InitCpu /\ [][NextCpu]_vars

\* CPU::tick called on its own for longer than the history is deep
InitHistory == InitWith(HistoryPrograms)

HistoryTick ==
  /\ loop = "poll"
  /\ Len(trail) < MaxHistoryTicks
  /\ \E r \in RandomDraws, trap \in BOOLEAN : CallTick(r, trap)
  /\ loop' = IF aborted' THEN "done" ELSE loop
  /\ UNCHANGED <<keyboard, tick_due, timer_due>>

NextHistory == HistoryTick

SpecHistory == InitHistory /\ [][NextHistory]_vars

\* CPU::tick called on its own with a key state the caller marks keys in and
\* does not reset
InitKeys == InitWith(KeyPrograms)

NextKeys ==
  \/ \E k \in KeySet : KeyEvent(k)
  \/ CpuTick

SpecKeys == InitKeys /\ [][NextKeys]_vars

\* CPU::tick called once on a one-word program, started without a mode argument
InitDecode ==
  \E p \in DecodePrograms : InitFrom(load_program(EmuNew([mode |-> ModeDefault]), Bytes(p)))

DecodeTick ==
  /\ trail = <<>>
  /\ CpuTick

NextDecode == DecodeTick

SpecDecode == InitDecode /\ [][NextDecode]_vars

-----------------------------------------------------------------------------
(* Observations the properties are stated on *)

\* a tick has executed, so that last describes it
Ticked == Len(trail) > 0

\* the last tick returned (it did not panic)
Returned == Ticked /\ ~last.panic

\* the 16-bit word at an address, first byte high
WordAt(mem, address) == read(mem, address) * 256 + read(mem, address + 1)

\* the word the last tick started at, and the instruction it stands for
LastWord == WordAt(last.pre.memory, last.pre.cpu.prog_counter)

LastIns == from_op_code(LastWord)

\* the last tick executed an instruction of this kind and returned
Ran(op) == Returned /\ LastIns.op = op

\* the registers of the two CPUs agree except on the registers in xs
SameRegsExcept(c, d, xs) == \A k \in 0..15 : k \in xs \/ c.vs[k] = d.vs[k]

-----------------------------------------------------------------------------
(* C1: the collision flag of a sprite draw *)

\* the pixels that were set before the last tick and are unset after it
Erased == last.pre.display \ display

\* C1: after a draw instruction VF is 1 exactly when the draw turned at least
\* one set pixel off, and 0 otherwise
C1_FlagIffErased ==
  Ran("Display") => last.cpu.vs[15] = (IF Erased # {} THEN 1 ELSE 0)

\* a draw onto the set pixels 0..7 of row 0 has erased them all and left VF at 0
C1_ErasedUnflagged ==
  /\ Ran("Display")
  /\ last.pre.display = 0..7
  /\ display = {}
  /\ Erased = 0..7
  /\ last.cpu.vs[15] = 0

-----------------------------------------------------------------------------
(* C2: the mode of the CPU *)

\* C2: the CPU runs in the mode the configuration names
C2_ModeIsConfigured == cpu.mode = config.mode

\* the configuration asks for Classic and the CPU is in Modern
C2_ClassicIgnored == config.mode = "Classic" /\ cpu.mode = "Modern"

-----------------------------------------------------------------------------
(* C3: get-key *)

\* C3: a get-key FX0A executed at p with no key down leaves the program counter
\* at p and the registers as they were; with a key down it leaves the program
\* counter at p + 2 and VX holding a pressed key, the other registers as they were
C3_GetKeyPolls ==
  Ran("GetKey") =>
    LET p == last.pre.cpu.prog_counter
        x == (LastWord \div 256) % 16
    IN IF last.pre.keyboard = {}
         THEN /\ last.cpu.prog_counter = p
              /\ last.cpu.vs = last.pre.cpu.vs
         ELSE /\ last.cpu.prog_counter = p + 2
              /\ last.cpu.vs[x] \in last.pre.keyboard
              /\ SameRegsExcept(last.cpu, last.pre.cpu, {x})

\* two ticks in a row waited at the same get-key, and the third found a key
\* down and went on
C3_WaitedThenKey ==
  /\ Ran("GetKey")
  /\ Len(trail) >= 3
  /\ trail[Len(trail) - 2].prog_counter = last.pre.cpu.prog_counter
  /\ trail[Len(trail) - 1].prog_counter = last.pre.cpu.prog_counter
  /\ last.pre.keyboard # {}
  /\ last.cpu.prog_counter = last.pre.cpu.prog_counter + 2

-----------------------------------------------------------------------------
(* C4: panics *)

\* C4: no tick panics
C4_NeverAborts == ~aborted

\* a random instruction with mask 0 has panicked
C4_RandomZeroAborted ==
  /\ aborted
  /\ last.panic
  /\ last.pre.cpu.prog_counter + 1 < RAM_SIZE
  /\ LastWord \div 4096 = 12
  /\ LastWord % 256 = 0

-----------------------------------------------------------------------------
(* C5: fetch and the program counter *)

\* the top nibble of the word the last tick started at
LastTop == LastWord \div 4096

\* C5: a tick that starts at p decodes the word memory[p] * 256 + memory[p + 1]
\* and executes it with the program counter already at p + 2: the instruction
\* recorded is the one of that word, a jump 1NNN leaves the program counter at
\* NNN, a call 2NNN pushes p + 2 and goes to NNN, an unknown word leaves the CPU
\* as it was but for the program counter at p + 2
C5_FetchThenExecute ==
  Returned =>
    LET p == last.pre.cpu.prog_counter
    IN /\ IF LastIns = None
            THEN last.cpu = [last.pre.cpu EXCEPT !.prog_counter = p + 2]
            ELSE /\ last.cpu.history # <<>>
                 /\ Last(last.cpu.history) = LastIns
       /\ LastTop = 1 => last.cpu.prog_counter = LastWord % 4096
       /\ LastTop = 2 =>
            /\ last.cpu.prog_counter = LastWord % 4096
            /\ last.cpu.stack = Append(last.pre.cpu.stack, p + 2)
       /\ LastTop \in {6, 7, 8, 10, 12, 13} => last.cpu.prog_counter = p + 2
       /\ LastTop \in {3, 4, 5, 9, 14} => last.cpu.prog_counter \in {p + 2, p + 4}

\* a call at p has pushed p + 2, and a word whose two bytes differ was decoded
C5_CallPushedNext ==
  /\ Returned
  /\ LastTop = 2
  /\ LastWord \div 256 # LastWord % 256
  /\ Last(last.cpu.stack) = last.pre.cpu.prog_counter + 2
  /\ last.cpu.prog_counter = LastWord % 4096

-----------------------------------------------------------------------------
(* C6: calls and returns *)

\* the number of ticks executed
N == Len(trail)

\* C6: a call at p pushes p + 2 and goes to its target; a return on a stack
\* that is not empty goes to the address pushed last and removes it; so a
\* return right after a call at p comes back to p + 2 with the stack as it was
\* before the call, and two calls followed by two returns come back first after
\* the second call and then after the first
C6_CallReturnLifo ==
  LET p == last.pre.cpu.prog_counter
      s == last.pre.cpu.stack
  IN /\ Ran("SubroutineCall") =>
          /\ last.cpu.stack = Append(s, p + 2)
          /\ last.cpu.prog_counter = LastWord % 4096
     /\ (Ran("SubroutineReturn") /\ s # <<>>) =>
          /\ last.cpu.prog_counter = s[Len(s)]
          /\ last.cpu.stack = SubSeq(s, 1, Len(s) - 1)
     /\ (Ran("SubroutineReturn") /\ N >= 2 /\ Len(s) = Len(trail[N - 1].stack) + 1) =>
          /\ last.cpu.prog_counter = trail[N - 1].prog_counter + 2
          /\ last.cpu.stack = trail[N - 1].stack
     /\ ( /\ Ran("SubroutineReturn")
          /\ N >= 4
          /\ Len(trail[N - 2].stack) = Len(trail[N - 3].stack) + 1
          /\ Len(trail[N - 1].stack) = Len(trail[N - 3].stack) + 2
          /\ Len(s) = Len(trail[N - 3].stack) + 1 ) =>
          /\ p = trail[N - 2].prog_counter + 2
          /\ last.cpu.prog_counter = trail[N - 3].prog_counter + 2
          /\ last.cpu.stack = trail[N - 3].stack

\* two calls and two returns have run, and the CPU is back after the first call
C6_NestedReturned ==
  /\ Ran("SubroutineReturn")
  /\ N >= 4
  /\ trail[N - 3].stack = <<>>
  /\ Len(trail[N - 2].stack) = 1
  /\ Len(trail[N - 1].stack) = 2
  /\ Len(last.pre.cpu.stack) = 1
  /\ last.cpu.stack = <<>>
  /\ last.cpu.prog_counter = trail[N - 3].prog_counter + 2

-----------------------------------------------------------------------------
(* C7: a return on the empty stack *)

\* the tick before the last was a return 00EE on the empty stack
AfterEmptyReturn ==
  /\ N >= 2
  /\ trail[N - 1].stack = <<>>
  /\ trail[N - 1].prog_counter + 1 < RAM_SIZE
  /\ WordAt(last.pre.memory, trail[N - 1].prog_counter) = 238

\* C7: a return 00EE at p on the empty stack does not panic and changes nothing
\* but the program counter, which it leaves at p + 2; the tick after it starts
\* at p + 2, and a set 6XNN there sets VX
C7_EmptyReturnIsNoOp ==
  /\ ( /\ Ticked
       /\ last.pre.cpu.prog_counter + 1 < RAM_SIZE
       /\ LastWord = 238
       /\ last.pre.cpu.stack = <<>> ) =>
       /\ ~last.panic
       /\ last.cpu.prog_counter = last.pre.cpu.prog_counter + 2
       /\ last.cpu.stack = <<>>
       /\ last.cpu.vs = last.pre.cpu.vs
       /\ last.cpu.i = last.pre.cpu.i
       /\ last.cpu.delay_timer = last.pre.cpu.delay_timer
       /\ last.cpu.sound_timer = last.pre.cpu.sound_timer
       /\ memory = last.pre.memory
       /\ display = last.pre.display
  /\ AfterEmptyReturn =>
       /\ last.pre.cpu.prog_counter = trail[N - 1].prog_counter + 2
       /\ (last.pre.cpu.prog_counter + 1 < RAM_SIZE /\ LastTop = 6) =>
            /\ ~last.panic
            /\ last.cpu.vs[(LastWord \div 256) % 16] = LastWord % 256

\* a return on the empty stack was followed by a set, which took effect
C7_SetAfterEmptyReturn ==
  /\ AfterEmptyReturn
  /\ Returned
  /\ LastWord = 24917
  /\ last.pre.cpu.vs[1] = 0
  /\ last.cpu.vs[1] = 85

-----------------------------------------------------------------------------
(* C8: the timers *)

\* C8: both timers stay within 0..255, and after k timer steps since the last
\* tick each holds max(t - k, 0), t being its value after that tick
C8_TimersFloorAtZero ==
  /\ cpu.delay_timer \in 0..255
  /\ cpu.sound_timer \in 0..255
  /\ cpu.delay_timer = Max(last.cpu.delay_timer - decs, 0)
  /\ cpu.sound_timer = Max(last.cpu.sound_timer - decs, 0)

\* three timer steps have taken the delay timer from 2 to 0, the sound timer
\* staying at 0
C8_FloorReached ==
  /\ decs = 3
  /\ last.cpu.delay_timer = 2
  /\ last.cpu.sound_timer = 0
  /\ cpu.delay_timer = 0
  /\ cpu.sound_timer = 0

-----------------------------------------------------------------------------
(* C9, C10: add and subtract with the flag *)

\* the last tick executed 8XYn and returned
RanAlu(n) == Returned /\ LastTop = 8 /\ LastWord % 16 = n

LastX == (LastWord \div 256) % 16

LastY == (LastWord \div 16) % 16

\* C9: after 8XY4, VF is 1 exactly when VX + VY exceeded 255 and 0 otherwise,
\* VX (when X is not F) holds the sum modulo 256, and no other register changed
C9_AddCarry ==
  RanAlu(4) =>
    LET sum == last.pre.cpu.vs[LastX] + last.pre.cpu.vs[LastY]
    IN /\ last.cpu.vs[15] = (IF sum > 255 THEN 1 ELSE 0)
       /\ LastX # 15 => last.cpu.vs[LastX] = sum % 256
       /\ SameRegsExcept(last.cpu, last.pre.cpu, {LastX, 15})

\* 255 + 1 has left 0 in VX and 1 in VF
C9_CarryOut ==
  /\ RanAlu(4)
  /\ LastX # 15
  /\ last.pre.cpu.vs[LastX] = 255
  /\ last.pre.cpu.vs[LastY] = 1
  /\ last.cpu.vs[LastX] = 0
  /\ last.cpu.vs[15] = 1

\* the difference of two bytes as a byte
WrappingSub(m, s) == IF m >= s THEN m - s ELSE 256 + m - s

\* what a subtraction of s from m must leave behind
SubtractedInto(m, s) ==
  /\ last.cpu.vs[15] = (IF m >= s THEN 1 ELSE 0)
  /\ LastX # 15 => last.cpu.vs[LastX] = WrappingSub(m, s)
  /\ SameRegsExcept(last.cpu, last.pre.cpu, {LastX, 15})

\* C10: 8XY5 computes VX - VY and 8XY7 computes VY - VX, wrapping to a byte,
\* with VF set to 1 exactly when the minuend is at least the subtrahend (no
\* borrow) and to 0 otherwise
C10_SubtractNoBorrow ==
  /\ RanAlu(5) => SubtractedInto(last.pre.cpu.vs[LastX], last.pre.cpu.vs[LastY])
  /\ RanAlu(7) => SubtractedInto(last.pre.cpu.vs[LastY], last.pre.cpu.vs[LastX])

\* 8XY7 with VX = 5 and VY = 3 has left 254 in VX and 0 in VF
C10_ReverseBorrowed ==
  /\ RanAlu(7)
  /\ LastX # 15
  /\ last.pre.cpu.vs[LastX] = 5
  /\ last.pre.cpu.vs[LastY] = 3
  /\ last.cpu.vs[LastX] = 254
  /\ last.cpu.vs[15] = 0

-----------------------------------------------------------------------------
(* C11: the shifts *)

\* the value a shift 8XY6 / 8XYE takes in the configured mode
ShiftSource ==
  IF config.mode = "Classic" THEN last.pre.cpu.vs[LastY] ELSE last.pre.cpu.vs[LastX]

\* bit k of a byte
Bit(v, k) == (v \div Pow2(k)) % 2

\* C11: a shift takes VY's value in Classic mode and VX's own value in Modern
\* mode; VF becomes bit 7 of that value for a shift left and bit 0 for a shift
\* right, and VX (when X is not F) that value shifted by one bit within 8 bits
C11_ShiftByMode ==
  /\ RanAlu(14) =>
       /\ last.cpu.vs[15] = Bit(ShiftSource, 7)
       /\ LastX # 15 => last.cpu.vs[LastX] = (ShiftSource * 2) % 256
  /\ RanAlu(6) =>
       /\ last.cpu.vs[15] = Bit(ShiftSource, 0)
       /\ LastX # 15 => last.cpu.vs[LastX] = ShiftSource \div 2

\* configured Classic, a shift left with VX = 0x00 and VY = 0x81 has left
\* VX = 0x00 and VF = 0
C11_ClassicShiftedVx ==
  /\ config.mode = "Classic"
  /\ RanAlu(14)
  /\ LastX # 15
  /\ LastY # LastX
  /\ last.pre.cpu.vs[LastX] = 0
  /\ last.pre.cpu.vs[LastY] = 129
  /\ last.cpu.vs[LastX] = 0
  /\ last.cpu.vs[15] = 0

-----------------------------------------------------------------------------
(* C12: op codes that stand for no instruction *)

\* the op codes without an instruction: BNNN, 8XYN with N in 8..D or F, EXNN
\* other than 9E and A1, FXNN outside the nine known low bytes
Unrecognized(w) ==
  \/ w \div 4096 = 11
  \/ w \div 4096 = 8 /\ w % 16 \in (8..13) \cup {15}
  \/ w \div 4096 = 14 /\ w % 256 \notin {158, 161}
  \/ w \div 4096 = 15 /\ w % 256 \notin {7, 10, 21, 24, 30, 41, 51, 85, 101}

\* the last tick started at a word it could fetch
Fetched == Ticked /\ last.pre.cpu.prog_counter + 1 < RAM_SIZE

\* the tick before the last fetched an op code without an instruction
AfterUnrecognized ==
  /\ N >= 2
  /\ trail[N - 1].prog_counter + 1 < RAM_SIZE
  /\ Unrecognized(WordAt(last.pre.memory, trail[N - 1].prog_counter))

\* C12: a tick that fetches an op code without an instruction does not panic,
\* leaves the program counter 2 further and everything else (registers, index,
\* stack, timers, history, memory, display) as it was; the tick after it starts
\* at the next word
C12_UnrecognizedSkipped ==
  /\ (Fetched /\ Unrecognized(LastWord)) =>
       /\ ~last.panic
       /\ last.cpu = [last.pre.cpu EXCEPT !.prog_counter = last.pre.cpu.prog_counter + 2]
       /\ memory = last.pre.memory
       /\ display = last.pre.display
  /\ AfterUnrecognized => last.pre.cpu.prog_counter = trail[N - 1].prog_counter + 2

\* the op codes 8008 and E000 were skipped one after the other
C12_TwoSkipped ==
  /\ AfterUnrecognized
  /\ WordAt(last.pre.memory, trail[N - 1].prog_counter) = 32776
  /\ Fetched
  /\ LastWord = 57344
  /\ ~last.panic
  /\ last.cpu.prog_counter = trail[N - 1].prog_counter + 4

-----------------------------------------------------------------------------
(* C13: the conditional skips *)

LastNN == LastWord % 256

\* the last tick executed one of the six conditional skips
RanSkip ==
  /\ Returned
  /\ \/ LastTop \in {3, 4}
     \/ LastTop \in {5, 9} /\ LastWord % 16 = 0
     \/ LastTop = 14 /\ LastNN \in {158, 161}

\* the condition of the skip the last tick executed, on the state before it
SkipCondition ==
  CASE LastTop = 3 -> last.pre.cpu.vs[LastX] = LastNN
    [] LastTop = 4 -> last.pre.cpu.vs[LastX] # LastNN
    [] LastTop = 5 -> last.pre.cpu.vs[LastX] = last.pre.cpu.vs[LastY]
    [] LastTop = 9 -> last.pre.cpu.vs[LastX] # last.pre.cpu.vs[LastY]
    [] LastTop = 14 /\ LastNN = 158 -> LastX \in last.pre.keyboard
    [] LastTop = 14 /\ LastNN = 161 -> LastX \notin last.pre.keyboard

\* C13: a conditional skip fetched at p leaves the program counter at p + 4
\* exactly when its condition holds and at p + 2 otherwise, and changes no
\* register, index, stack, timer, memory byte or pixel
C13_SkipIffCondition ==
  RanSkip =>
    /\ last.cpu.prog_counter =
         last.pre.cpu.prog_counter + (IF SkipCondition THEN 4 ELSE 2)
    /\ last.cpu.vs = last.pre.cpu.vs
    /\ last.cpu.i = last.pre.cpu.i
    /\ last.cpu.stack = last.pre.cpu.stack
    /\ last.cpu.delay_timer = last.pre.cpu.delay_timer
    /\ last.cpu.sound_timer = last.pre.cpu.sound_timer
    /\ memory = last.pre.memory
    /\ display = last.pre.display

\* a skip-if-key-pressed on a key that is down has skipped
C13_KeySkipTaken ==
  /\ RanSkip
  /\ LastTop = 14
  /\ LastNN = 158
  /\ LastX \in last.pre.keyboard
  /\ last.cpu.prog_counter = last.pre.cpu.prog_counter + 4

-----------------------------------------------------------------------------
(* C14: register block store and load *)

\* the addresses I0 .. I0 + X of the block the last tick transferred
Block == last.pre.cpu.i .. (last.pre.cpu.i + LastX)

\* the index register after a block transfer in the given mode
IndexAfterBlock(mode) ==
  IF mode = "Classic" THEN last.pre.cpu.i + LastX + 1 ELSE last.pre.cpu.i

\* what FX55 must leave behind in the given mode
Stored(mode) ==
  /\ \A k \in 0..LastX : read(memory, last.pre.cpu.i + k) = last.pre.cpu.vs[k]
  /\ \A a \in (DOMAIN memory \cup DOMAIN last.pre.memory) \ Block :
       read(memory, a) = read(last.pre.memory, a)
  /\ last.cpu.vs = last.pre.cpu.vs
  /\ last.cpu.i = IndexAfterBlock(mode)

\* what FX65 must leave behind in the given mode
Loaded(mode) ==
  /\ \A k \in 0..LastX : last.cpu.vs[k] = read(last.pre.memory, last.pre.cpu.i + k)
  /\ \A k \in (LastX + 1)..15 : last.cpu.vs[k] = last.pre.cpu.vs[k]
  /\ memory = last.pre.memory
  /\ last.cpu.i = IndexAfterBlock(mode)

\* C14: FX55 copies V0..VX to memory[I0..I0+X] and FX65 copies memory[I0..I0+X]
\* to V0..VX, in register order and touching nothing else; in Classic mode the
\* index register ends at I0 + X + 1, in Modern mode it is unchanged
C14_BlockTransfer ==
  /\ (Returned /\ LastTop = 15 /\ LastNN = 85) => Stored(config.mode)
  /\ (Returned /\ LastTop = 15 /\ LastNN = 101) => Loaded(config.mode)

\* configured Classic, F255 has stored V0..V2 at 0x300 and left the index
\* register at 0x300
C14_ClassicIndexKept ==
  /\ config.mode = "Classic"
  /\ Returned
  /\ LastWord = 62037
  /\ last.pre.cpu.i = 768
  /\ read(memory, 769) = 1
  /\ read(memory, 770) = 2
  /\ last.cpu.i = 768

-----------------------------------------------------------------------------
(* C15: the alignment of the program counter *)

\* C15: the program counter is even
C15_ProgramCounterEven == cpu.prog_counter % 2 = 0

\* the program counter and the return addresses of a CPU are all even
Aligned(c) ==
  /\ c.prog_counter % 2 = 0
  /\ \A k \in 1..Len(c.stack) : c.stack[k] % 2 = 0

\* the last tick executed a jump 1NNN or a call 2NNN with an odd NNN
OddTarget == Fetched /\ LastTop \in {1, 2} /\ LastWord % 2 = 1

\* C15 as amended: the program counter is even before the first tick, and a
\* tick that starts with the program counter and the return addresses even
\* leaves them even unless it executes a jump or a call with an odd target
C15_EvenUnlessOddTarget ==
  /\ ~Ticked => Aligned(cpu)
  /\ (Returned /\ Aligned(last.pre.cpu) /\ ~OddTarget) => Aligned(last.cpu)

\* a return has taken an even address off the stack and gone back to it,
\* leaving the program counter and the remaining return addresses even
C15_RewoundEven ==
  /\ Ran("SubroutineReturn")
  /\ last.pre.cpu.stack # <<>>
  /\ Aligned(last.pre.cpu)
  /\ Aligned(last.cpu)
  /\ last.cpu.prog_counter < last.pre.cpu.prog_counter

-----------------------------------------------------------------------------
(* C16: the decoder *)

\* the names of the instruction variants
Variants ==
  {"Add", "AddIndex", "AddRegister", "And", "BcdConversion", "ClearScreen",
   "DelayTimerLoad", "DelayTimerSet", "Display", "GetKey", "Jump", "Load",
   "LoadFontChar", "MachineLanguageRoutine", "Or", "Random", "SetIndex", "Set",
   "SetRegister", "ShiftLeft", "ShiftRight", "SkipEqual", "SkipEqualReg",
   "SkipIfKeyNotPressed", "SkipIfKeyPressed", "SkipNotEqual", "SkipNotEqualReg",
   "SoundTimerSet", "Store", "Subtract", "SubtractRev", "SubroutineCall",
   "SubroutineReturn", "Xor"}

\* bits lo .. lo + 3 of a word, by mask and shift
Nibble(w, lo) == Shr(BitAnd(w, 15 * Pow2(lo)), lo)

\* the fields the instruction ins carries are the fields of the word w
FieldsOf(ins, w) ==
  LET f == DOMAIN ins
  IN /\ "vx" \in f => ins.vx = Nibble(w, 8) /\ ins.vx \in 0..15
     /\ "vy" \in f => ins.vy = Nibble(w, 4) /\ ins.vy \in 0..15
     /\ "v" \in f => ins.v = Nibble(w, 8) /\ ins.v \in 0..15
     /\ "n" \in f => ins.n = Nibble(w, 8) /\ ins.n \in 0..15
     /\ "pixels" \in f => ins.pixels = BitAnd(w, 15)
     /\ "address" \in f => ins.address = BitAnd(w, 4095)
     /\ "value" \in f =>
          ins.value = (IF ins.op = "SetIndex" THEN BitAnd(w, 4095) ELSE BitAnd(w, 255))

\* the word w decodes to one variant with the fields of w, or to none, and to
\* none exactly when it is one of the op codes without an instruction
DecodedWell(w) ==
  /\ from_op_code(w).op \in Variants \cup {"None"}
  /\ from_op_code(w) = None <=> Unrecognized(w)
  /\ FieldsOf(from_op_code(w), w)

\* C16: the word a tick is about to fetch decodes to exactly one variant or to
\* none, its register indices in 0..15 and its fields the nibbles, low byte and
\* low 12 bits of the word; and the instruction a tick executed is the one its
\* word decodes to, whatever the state
C16_DecodeTotal ==
  /\ cpu.prog_counter + 1 < RAM_SIZE => DecodedWell(WordAt(memory, cpu.prog_counter))
  /\ (Fetched /\ ~last.panic /\ ~Unrecognized(LastWord)) =>
       /\ last.cpu.history # <<>>
       /\ Last(last.cpu.history) = from_op_code(LastWord)

\* the word DFA5 was decoded to a draw with X = F, Y = A, N = 5 and executed
C16_DrawDecoded ==
  /\ Fetched
  /\ ~last.panic
  /\ LastWord = 57253
  /\ Last(last.cpu.history) = [op |-> "Display", vx |-> 15, vy |-> 10, pixels |-> 5]

-----------------------------------------------------------------------------
(* C17: the timer instructions *)

\* the last tick executed FXnn and returned
RanF(nn) == Returned /\ LastTop = 15 /\ LastNN = nn

\* C17: FX07 copies the delay timer into VX and leaves the delay timer as it
\* was; FX15 copies VX into the delay timer and FX18 copies VX into the sound
\* timer, both leaving VX as it was
C17_TimerGetSet ==
  /\ RanF(7) =>
       /\ last.cpu.vs[LastX] = last.pre.cpu.delay_timer
       /\ last.cpu.delay_timer = last.pre.cpu.delay_timer
  /\ RanF(21) =>
       /\ last.cpu.delay_timer = last.pre.cpu.vs[LastX]
       /\ last.cpu.vs = last.pre.cpu.vs
  /\ RanF(24) =>
       /\ last.cpu.sound_timer = last.pre.cpu.vs[LastX]
       /\ last.cpu.vs = last.pre.cpu.vs

\* F107 with the delay timer at 2 and V1 at 0 has left V1 at 0 and the delay
\* timer at 0
C17_GetOverwroteTimer ==
  /\ RanF(7)
  /\ LastX = 1
  /\ last.pre.cpu.delay_timer = 2
  /\ last.pre.cpu.vs[1] = 0
  /\ last.cpu.vs[1] = 0
  /\ last.cpu.delay_timer = 0

-----------------------------------------------------------------------------
(* C18: index add *)

\* C18: FX1E leaves I + VX in the index register as a 16-bit value, not cut to
\* 12 bits, and VF at 1 whenever that value is 0x1000 or more
C18_IndexAddUntruncated ==
  RanF(30) =>
    /\ last.cpu.i = (last.pre.cpu.i + last.pre.cpu.vs[LastX]) % 65536
    /\ last.cpu.i >= 4096 => last.cpu.vs[15] = 1

\* F01E with I = 0xFFF and V0 = 2 has left I = 0x1001 and VF = 1
C18_IndexPastMemory ==
  /\ RanF(30)
  /\ last.pre.cpu.i = 4095
  /\ last.pre.cpu.vs[LastX] = 2
  /\ last.pre.cpu.vs[15] = 0
  /\ last.cpu.i = 4097
  /\ last.cpu.vs[15] = 1

-----------------------------------------------------------------------------
(* C19: add-immediate *)

\* C19: 7XNN leaves (VX + NN) mod 256 in VX and every other register as it
\* was; so for X other than F the flag register VF is unchanged, also when the
\* sum exceeds 255
C19_AddImmediateKeepsFlag ==
  (Returned /\ LastTop = 7) =>
    /\ last.cpu.vs[LastX] = (last.pre.cpu.vs[LastX] + LastNN) % 256
    /\ SameRegsExcept(last.cpu, last.pre.cpu, {LastX})
    /\ LastX # 15 => last.cpu.vs[15] = last.pre.cpu.vs[15]

\* 71FF with V1 = 1 and VF = 1 has left V1 = 0 and VF = 1
C19_OverflowFlagKept ==
  /\ Returned
  /\ LastWord = 29183
  /\ last.pre.cpu.vs[1] = 1
  /\ last.pre.cpu.vs[15] = 1
  /\ last.cpu.vs[1] = 0
  /\ last.cpu.vs[15] = 1

-----------------------------------------------------------------------------
(* C20: random *)

\* what CXNN must leave behind: VX = r AND NN for some r in 0 .. NN - 1, so a
\* bit-subset of NN below NN, and the other registers as they were
RandomDrawn ==
  /\ \E r \in 0..(LastNN - 1) : last.cpu.vs[LastX] = BitAnd(r, LastNN)
  /\ BitAnd(last.cpu.vs[LastX], LastNN) = last.cpu.vs[LastX]
  /\ last.cpu.vs[LastX] < LastNN
  /\ SameRegsExcept(last.cpu, last.pre.cpu, {LastX})

\* C20: for every NN a random CXNN completes and leaves in VX a value r AND NN
\* with 0 <= r < NN, changing no other register
C20_RandomCompletes ==
  (Fetched /\ LastTop = 12) => (~last.panic /\ RandomDrawn)

\* the random C000 did not complete
C20_RandomZeroFailed ==
  /\ Fetched
  /\ LastWord = 49152
  /\ last.panic
  /\ aborted

-----------------------------------------------------------------------------
(* C21: BCD conversion *)

\* the memory after the last tick differs from the memory before it at most
\* at the addresses in as
MemorySameExcept(as) ==
  \A a \in (DOMAIN memory \cup DOMAIN last.pre.memory) \ as :
    read(memory, a) = read(last.pre.memory, a)

\* the last tick left the registers, index, stack and timers as they were
CpuKept ==
  /\ last.cpu.vs = last.pre.cpu.vs
  /\ last.cpu.i = last.pre.cpu.i
  /\ last.cpu.stack = last.pre.cpu.stack
  /\ last.cpu.delay_timer = last.pre.cpu.delay_timer
  /\ last.cpu.sound_timer = last.pre.cpu.sound_timer

\* C21: after FX33 memory[I], memory[I + 1], memory[I + 2] hold the hundreds,
\* tens and ones digit of VX, each in 0..9 and together worth VX; no other
\* memory byte, no register and not the index register has changed
C21_BcdDigits ==
  RanF(51) =>
    LET v  == last.pre.cpu.vs[LastX]
        m0 == read(memory, last.pre.cpu.i)
        m1 == read(memory, last.pre.cpu.i + 1)
        m2 == read(memory, last.pre.cpu.i + 2)
    IN /\ m0 = v \div 100
       /\ m1 = (v \div 10) % 10
       /\ m2 = v % 10
       /\ {m0, m1, m2} \subseteq 0..9
       /\ 100 * m0 + 10 * m1 + m2 = v
       /\ MemorySameExcept(last.pre.cpu.i .. (last.pre.cpu.i + 2))
       /\ CpuKept
       /\ display = last.pre.display

\* F033 with V0 = 255 and I = 0x300 has written 2, 5, 5
C21_Bcd255 ==
  /\ RanF(51)
  /\ last.pre.cpu.vs[LastX] = 255
  /\ last.pre.cpu.i = 768
  /\ read(memory, 768) = 2
  /\ read(memory, 769) = 5
  /\ read(memory, 770) = 5

-----------------------------------------------------------------------------
(* C22: machine language routines *)

\* the last tick fetched an op code 0NNN other than 00E0 and 00EE
FetchedMlr == Fetched /\ LastTop = 0 /\ LastWord \notin {224, 238}

\* C22: an op code 0NNN other than 00E0 and 00EE decodes to the machine
\* language routine instruction, and executing it only moves the program
\* counter 2 further and appends the instruction to the history; registers,
\* index, stack, timers, memory and display stay as they were
C22_MachineRoutineNoOp ==
  FetchedMlr =>
    /\ from_op_code(LastWord) # None
    /\ ~last.panic
    /\ last.cpu.prog_counter = last.pre.cpu.prog_counter + 2
    /\ last.cpu.history =
         Append(last.pre.cpu.history,
                [op |-> "MachineLanguageRoutine", address |-> LastWord])
    /\ CpuKept
    /\ memory = last.pre.memory
    /\ display = last.pre.display

\* 0FFF was executed with a register, a timer and pixels set, and left them
C22_RoutineSkipped ==
  /\ FetchedMlr
  /\ LastWord = 4095
  /\ last.pre.cpu.vs[0] = 7
  /\ last.pre.cpu.delay_timer = 7
  /\ last.pre.display # {}
  /\ last.cpu.vs[0] = 7
  /\ last.cpu.delay_timer = 7
  /\ display = last.pre.display
  /\ last.cpu.prog_counter = last.pre.cpu.prog_counter + 2

-----------------------------------------------------------------------------
(* C23: the pixels of a sprite draw *)

\* the pixels a sprite of n rows at mem[i..] covers with a set bit when its
\* origin is (x0, y0): row r, column c lands on (y0 + r) * 64 + (x0 + c), and
\* what passes the right or the bottom edge is dropped
SpritePixels(mem, i, x0, y0, n) ==
  { (y0 + r) * DISPLAY_PIXELS_WIDTH + (x0 + col) :
      <<r, col>> \in { rc \in (0..(n - 1)) \X (0..7) :
                         /\ x0 + rc[2] < DISPLAY_PIXELS_WIDTH
                         /\ y0 + rc[1] < DISPLAY_PIXELS_HEIGHT
                         /\ Bit(read(mem, i + rc[1]), 7 - rc[2]) = 1 } }

\* XOR of two pixel sets
Toggle(disp, pixels) == (disp \ pixels) \cup (pixels \ disp)

\* the sprite the last tick drew, placed by the registers as the tick found them
LastSprite ==
  SpritePixels(last.pre.memory, last.pre.cpu.i,
               last.pre.cpu.vs[LastX] % DISPLAY_PIXELS_WIDTH,
               last.pre.cpu.vs[LastY] % DISPLAY_PIXELS_HEIGHT, LastWord % 16)

\* the display after the draw of the last tick is made once more with the
\* same registers
DrawnAgain ==
  cpu_display(last.pre.cpu, memory, display, LastX, LastY, LastWord % 16, FALSE).display

\* C23: a sprite draw XORs bit (7 - c) of memory[I + r] into pixel
\* (y0 + r) * 64 + (x0 + c), (x0, y0) = (VX mod 64, VY mod 32), for exactly the
\* rows r < N and columns c < 8 that stay inside the display; every other
\* pixel, the memory and the index register are unchanged, and the same draw
\* made again restores the display
C23_SpriteXor ==
  Ran("Display") =>
    /\ display = Toggle(last.pre.display, LastSprite)
    /\ memory = last.pre.memory
    /\ last.cpu.i = last.pre.cpu.i
    /\ DrawnAgain = last.pre.display

\* DF02 with VF = 10 and rows FF FF on an empty display: the second row is
\* drawn from column 0
C23_SecondRowAtFlag ==
  /\ Ran("Display")
  /\ LastWord = Op(13, 15, 0, 2)
  /\ last.pre.cpu.vs[15] = 10
  /\ last.pre.display = {}
  /\ display = (10..17) \cup (64..71)

-----------------------------------------------------------------------------
(* C24: the history of executed instructions *)

\* the instructions the ticks so far decoded and executed, in execution order
\* (the programs of this run never write to memory)
Executed ==
  SelectSeq([t \in 1..Len(trail) |-> from_op_code(WordAt(memory, trail[t].prog_counter))],
            LAMBDA ins : ins # None)

\* the last k elements of a sequence, all of it when it is shorter
Recent(s, k) == SubSeq(s, Max(1, Len(s) - k + 1), Len(s))

\* C24: the history never holds more than 100 entries; a tick that executes
\* an instruction, a retried get-key too, appends it at the back, evicting the
\* oldest entry first when 100 are held, so that the history is the most
\* recent at most 100 executed instructions in execution order; a tick on an
\* unrecognized op code appends nothing
C24_HistoryRecent ==
  ~aborted =>
    /\ Len(cpu.history) <= MAX_HISTORY_SIZE
    /\ cpu.history = Recent(Executed, MAX_HISTORY_SIZE)
    /\ (Ticked /\ LastIns # None) =>
         /\ cpu.history[Len(cpu.history)] = LastIns
         /\ Len(last.pre.cpu.history) < MAX_HISTORY_SIZE =>
              cpu.history = Append(last.pre.cpu.history, LastIns)
         /\ Len(last.pre.cpu.history) = MAX_HISTORY_SIZE =>
              cpu.history = Append(Tail(last.pre.cpu.history), LastIns)
    /\ (Ticked /\ LastIns = None) => cpu.history = last.pre.cpu.history

\* a tick found 100 entries, the two oldest different, and evicted the oldest
C24_OldestEvicted ==
  /\ Returned
  /\ LastIns # None
  /\ Len(last.pre.cpu.history) = MAX_HISTORY_SIZE
  /\ last.pre.cpu.history[1] # last.pre.cpu.history[2]
  /\ Len(cpu.history) = MAX_HISTORY_SIZE
  /\ cpu.history[1] = last.pre.cpu.history[2]
  /\ cpu.history[MAX_HISTORY_SIZE] = LastIns
  /\ Len(Executed) > MAX_HISTORY_SIZE

-----------------------------------------------------------------------------
(* C25: what changes the timers *)

\* the step is a call of cpu.tick that returned
TickStep == trail' # trail /\ ~aborted'

\* the step is a call of cpu.dec_timers
TimerStep == decs' = decs + 1

\* the step leaves everything of the CPU but the two timers as it was
OnlyTimersChange ==
  cpu' = [cpu EXCEPT !.delay_timer = cpu'.delay_timer, !.sound_timer = cpu'.sound_timer]

\* C25: a tick changes the delay timer only by executing FX15 and the sound
\* timer only by executing FX18, and dec_timers changes nothing but the two
\* timers
C25_TimersOnlyBySteps ==
  [][ /\ (TickStep /\ cpu'.delay_timer # cpu.delay_timer) => NextIns.op = "DelayTimerSet"
      /\ (TickStep /\ cpu'.sound_timer # cpu.sound_timer) => NextIns.op = "SoundTimerSet"
      /\ TimerStep => (OnlyTimersChange /\ memory' = memory /\ display' = display)
    ]_vars

\* F107 found the delay timer at 255 and left it at 0, the value of V1
C25_GetChangedTimer ==
  /\ RanF(7)
  /\ last.pre.cpu.delay_timer = 255
  /\ last.pre.cpu.vs[LastX] = 0
  /\ last.cpu.delay_timer = 0

-----------------------------------------------------------------------------
(* C26: the key a get-key takes *)

\* C26: a get-key that finds keys pressed writes the lowest pressed index to
\* VX, which is k when k is the one key pressed, and a tick leaves the key
\* state as it was
C26_LowestKey ==
  [][ TickStep =>
        /\ keyboard' = keyboard
        /\ (NextIns.op = "GetKey" /\ keyboard # {}) =>
             /\ cpu'.vs[NextIns.v] \in keyboard
             /\ \A k \in keyboard : cpu'.vs[NextIns.v] <= k
             /\ \A k \in 0..15 : keyboard = {k} => cpu'.vs[NextIns.v] = k
    ]_vars

\* a get-key ran with the keys 1 and F pressed, took 1 and left both pressed
C26_LowestOfTwo ==
  /\ Ran("GetKey")
  /\ last.pre.keyboard = {1, 15}
  /\ last.cpu.vs[LastX] = 1
  /\ last.cpu.prog_counter = last.pre.cpu.prog_counter + 2
  /\ keyboard = {1, 15}

-----------------------------------------------------------------------------
(* C27: keys, ticks and timer steps in the driver loop *)

\* the step marks keys: it is polling, at the head of an iteration, before
\* the tick is considered
KeysMarked ==
  /\ loop = "poll"
  /\ loop' = "poll"
  /\ trail' = trail
  /\ keyboard \subseteq keyboard'

\* C27: in the driver loop keys are marked by polling, before the tick of the
\* iteration, and cleared only by the reset right after a tick; a marked key
\* stays marked until a tick runs, that tick sees it, and no later tick does;
\* a get-key that finds a key marked completes at that tick; a timer step
\* neither clears keys nor restarts the time to the next tick, and a tick
\* does not restart the time to the next timer step
C27_LoopOrder ==
  [][ /\ keyboard' # keyboard => (KeysMarked \/ (TickStep /\ keyboard' = {}))
      /\ TickStep =>
           /\ loop = "poll"
           /\ loop' = "timer"
           /\ last'.pre.keyboard = keyboard
           /\ keyboard' = {}
           /\ ~tick_due'
           /\ timer_due' = timer_due
           /\ (NextIns.op = "GetKey" /\ keyboard # {}) =>
                /\ cpu'.prog_counter = cpu.prog_counter + 2
                /\ cpu'.vs[NextIns.v] \in keyboard
      /\ TimerStep =>
           /\ keyboard' = keyboard
           /\ tick_due' = tick_due
           /\ ~timer_due'
    ]_vars

\* a get-key waited at one tick, found the key F marked at the next and
\* completed, and the key is cleared, with the timer step still due
C27_KeyServedOnce ==
  /\ Ran("GetKey")
  /\ Len(trail) >= 2
  /\ trail[Len(trail) - 1].prog_counter = trail[Len(trail)].prog_counter
  /\ last.pre.keyboard = {15}
  /\ last.cpu.vs[LastX] = 15
  /\ last.cpu.prog_counter = last.pre.cpu.prog_counter + 2
  /\ keyboard = {}
  /\ loop = "timer"
  /\ timer_due

-----------------------------------------------------------------------------
(* C28: the key of a key skip *)

\* the last tick fetched EX9E or EXA1
FetchedKeySkip == Fetched /\ LastTop = 14 /\ LastNN \in {158, 161}

\* C28: EX9E and EXA1 test the key whose index is the X nibble, whatever the
\* registers hold: EX9E skips exactly when key X is pressed, EXA1 exactly
\* when it is not; the index is in 0..15 and the lookup of the key never fails
C28_KeySkipByNibble ==
  FetchedKeySkip =>
    /\ ~last.panic
    /\ from_idx(LastX) \in 0..15
    /\ last.cpu.prog_counter =
         last.pre.cpu.prog_counter
           + (IF (LastX \in last.pre.keyboard) = (LastNN = 158) THEN 4 ELSE 2)

\* E19E with key 1 pressed and V1 = 16, not the index of a key, has skipped
C28_SkipOnNibbleKey ==
  /\ FetchedKeySkip
  /\ LastWord = Op(14, 1, 9, 14)
  /\ last.pre.keyboard = {1}
  /\ last.pre.cpu.vs[1] = 16
  /\ ~last.panic
  /\ last.cpu.prog_counter = last.pre.cpu.prog_counter + 4

-----------------------------------------------------------------------------
(* C29: a flag-producing instruction whose destination is VF *)

\* the last tick executed 8FYn
RanAluIntoFlag(n) == RanAlu(n) /\ LastX = 15

\* the value the shift of the last tick shifted, by the mode the CPU ran in
ShiftedValue ==
  IF last.pre.cpu.mode = "Classic" THEN last.pre.cpu.vs[LastY] ELSE last.pre.cpu.vs[15]

\* C29: when the destination of 8XY4, 8XY5, 8XY7, 8XY6 or 8XYE is VF, the
\* flag is written last: VF ends as the carry, no-borrow or shifted-out bit
\* of the operands as they were before the instruction, 0 or 1, and not as the
\* sum, difference or shifted value
C29_FlagWrittenLast ==
  LET vf == last.pre.cpu.vs[15]
      vy == last.pre.cpu.vs[LastY]
  IN /\ RanAluIntoFlag(4) => last.cpu.vs[15] = (IF vf + vy > 255 THEN 1 ELSE 0)
     /\ RanAluIntoFlag(5) => last.cpu.vs[15] = (IF vf >= vy THEN 1 ELSE 0)
     /\ RanAluIntoFlag(7) => last.cpu.vs[15] = (IF vy >= vf THEN 1 ELSE 0)
     /\ RanAluIntoFlag(6) => last.cpu.vs[15] = Bit(ShiftedValue, 0)
     /\ RanAluIntoFlag(14) => last.cpu.vs[15] = Bit(ShiftedValue, 7)
     /\ (\E n \in {4, 5, 6, 7, 14} : RanAluIntoFlag(n)) =>
          /\ last.cpu.vs[15] \in {0, 1}
          /\ SameRegsExcept(last.cpu, last.pre.cpu, {15})

\* 8F05 with VF = 5 and V0 = 3 has left the no-borrow flag 1 in VF, not the
\* difference 2
C29_DifferenceOverwritten ==
  /\ RanAluIntoFlag(5)
  /\ LastY = 0
  /\ last.pre.cpu.vs[15] = 5
  /\ last.pre.cpu.vs[0] = 3
  /\ last.cpu.vs[15] = 1

====
